---- MODULE Spec2Model ----
(***************************************************************************)
(* Resilient Execution & Caching Core of tutorials-account-balances.       *)
(*                                                                         *)
(* Part 1: the CircuitBreaker class of the retry utility.  One breaker     *)
(* instance is shared by NumCalls call sites; an execute call is split at  *)
(* its only suspension point (await fn()), so calls may overlap.           *)
(*                                                                         *)
(* Part 2: withRetry, isRetryableError and batchRetry of the same file.    *)
(* Each of NumOps operations runs in its own withRetry call, split at its  *)
(* two suspension points (await fn() and await sleep(delay)).              *)
(*                                                                         *)
(* Part 3: SimpleCache (the TTL cache) and LRUCache of the cache module.   *)
(* getOrSet is split at its suspension point (await fetchFn()).            *)
(***************************************************************************)
EXTENDS Integers, Naturals, Sequences, FiniteSets, TLC

\* ---------------------------------------------------------------- bounds
NumCalls        == 2    \* call sites sharing the breaker
MaxThreshold    == 2    \* failureThreshold ranges over 1..MaxThreshold
MaxResetTimeout == 2    \* resetTimeout ranges over 1..MaxResetTimeout
MaxFailureCount == 3    \* cap on the unbounded failureCount counter
LastFailTime    == 2    \* BreakerLiveSpec: the operation never fails after this time
TrialCap        == 3    \* the HALF_OPEN history counters saturate here
NumOps          == 2    \* operations handed to batchRetry / concurrent withRetry calls
MaxAttempts     == 3    \* maxAttempts ranges over 0..MaxAttempts
MaxInitialDelay == 2    \* initialDelay ranges over 1..MaxInitialDelay
MaxMaxDelay     == 3    \* maxDelay ranges over 1..MaxMaxDelay
MaxFactor       == 2    \* backoffFactor ranges over 1..MaxFactor
NumCallers      == 2    \* overlapping getOrSet calls
NumValues       == 2    \* distinct values stored in the caches
MaxSeconds      == 2    \* the cache clock runs up to MaxSeconds seconds
MaxTTL          == 2    \* a ttl argument is 0 or MaxTTL, defaultTTL is below MaxTTL
MaxLruSize      == 2    \* maxSize ranges over 0..MaxLruSize
MaxLruTime      == 2    \* the LRU clock runs over 1..MaxLruTime
MaxTime         == LastFailTime + MaxResetTimeout + 1   \* last clock value

Calls == 1..NumCalls
Ops   == 1..NumOps

\* ------------------------------------------------------- enum CircuitState
CLOSED    == "CLOSED"
OPEN      == "OPEN"
HALF_OPEN == "HALF_OPEN"
CircuitState == {CLOSED, OPEN, HALF_OPEN}

\* ------------------------------------------------------------------ errors
\* An error value as a caller can observe it: constructor name and message.
NoError == [name |-> "", message |-> ""]

\* context is an optional string; "" stands for undefined (both are falsy).
Contexts == {"", "rpc"}

\* new Error(`Circuit breaker is OPEN. ${context ? `Context: ${context}` : ''}`)
CircuitOpenError(context) ==
    [name    |-> "Error",
     message |-> "Circuit breaker is OPEN. "
                   \o (IF context # "" THEN "Context: " \o context ELSE "")]

\* What a wrapped operation can reject with: an arbitrary value.  Two
\* representatives: an ordinary failure, and the rejection of an inner
\* breaker-protected call made by the operation itself.
OperationErrors ==
    {[name |-> "Error", message |-> "ETIMEDOUT"],
     CircuitOpenError("")}

VARIABLES
    failureThreshold,   \* readonly config
    resetTimeout,       \* readonly config
    state,              \* CircuitState
    failureCount,
    lastFailureTime,
    successCount,
    now,                \* Date.now()
    pc,                 \* per call site: "idle" or "pending" (awaiting fn())
    event,              \* history: the last step taken and what it returned or raised
    streak,             \* history: failed operations since the last success or reset
    hoInvoked,          \* history: operations invoked in the current HALF_OPEN period
    hoSuccesses,        \* history: successful operations since HALF_OPEN was entered
    trial,              \* history: the call was admitted in the latest HALF_OPEN period
    hoOwn               \* history: successes, since HALF_OPEN was entered, of such calls

breakerVars ==
    <<failureThreshold, resetTimeout, state, failureCount, lastFailureTime,
      successCount, now, pc, event, streak, hoInvoked, hoSuccesses, trial, hoOwn>>

VARIABLES
    maxAttempts,        \* merged RetryConfig
    initialDelay,
    maxDelay,
    backoffFactor,
    retryableErrors,
    rpc,                \* per withRetry call: where it is
    attempt,            \* loop variable
    delay,              \* local `delay`
    lastError,          \* local `lastError`
    timer,              \* milliseconds left of the pending sleep(delay)
    outcome,            \* settled value of the promise withRetry returned
    batch,              \* the batchRetry call: where it is
    batchResult,        \* what the batchRetry promise settled with
    invoked,            \* history: invocations of fn by this call
    waited,             \* history: the delays this call has slept, in order
    lastThrown,         \* history: what the latest fn() rejected with
    resolvedWith,       \* history: what fn() resolved with
    allRetryable        \* history: every rejection so far matched retryableErrors

retryVars ==
    <<maxAttempts, initialDelay, maxDelay, backoffFactor, retryableErrors,
      rpc, attempt, delay, lastError, timer, outcome, batch, batchResult,
      invoked, waited, lastThrown, resolvedWith, allRetryable>>

VARIABLES
    clsError,           \* argument `error` of isRetryableError
    clsList,            \* argument `retryableErrors`
    clsResult           \* what the call returned ("none" before the call)

classifyVars == <<clsError, clsList, clsResult>>

VARIABLES
    defaultTTL,         \* SimpleCache.defaultTTL (seconds)
    cache,              \* SimpleCache.cache: key -> entry (NoEntry when not stored)
    cnow,               \* Date.now() as the cache reads it (milliseconds)
    gpc,                \* per caller: its getOrSet call awaiting fetchFn(), or idle
    cev,                \* history: the last cache operation and its result
    lastSet,            \* history: value of the latest set of the key, 0 after delete/clear
    noSweep             \* history: the cache as it would be had cleanup() never run

ttlVars == <<defaultTTL, cache, cnow, gpc, cev, lastSet, noSweep>>

VARIABLES
    maxSize,            \* LRUCache.maxSize
    lru,                \* LRUCache.cache: the Map's entries in insertion order
    lnow,               \* Date.now() as the LRU cache reads it
    lev,                \* history: the last LRU operation and its result
    lastTouch           \* history: rank of the key's latest set or get (0: not stored)

lruVars == <<maxSize, lru, lnow, lev, lastTouch>>

vars == <<breakerVars, retryVars, classifyVars, ttlVars, lruVars>>

notBreaker  == <<retryVars, classifyVars, ttlVars, lruVars>>
notRetry    == <<breakerVars, classifyVars, ttlVars, lruVars>>
notClassify == <<breakerVars, retryVars, ttlVars, lruVars>>
notTtl      == <<breakerVars, retryVars, classifyVars, lruVars>>
notLru      == <<breakerVars, retryVars, classifyVars, ttlVars>>

\* The mutable fields of the instance, as one record.
this ==
    [state |-> state, failureCount |-> failureCount,
     lastFailureTime |-> lastFailureTime, successCount |-> successCount]

Assign(b) ==
    /\ state' = b.state
    /\ failureCount' = b.failureCount
    /\ lastFailureTime' = b.lastFailureTime
    /\ successCount' = b.successCount

\* History counters count up to TrialCap.
Count(n) == IF n < TrialCap THEN n + 1 ELSE TrialCap

\* from: the breaker state in which the step was taken.
Event(op, call, raised, thrown) ==
    [op |-> op, call |-> call, from |-> state, raised |-> raised,
     thrown |-> thrown]

\* ------------------------------------------------------ CircuitBreaker code
\* execute, lines 187-195: OPEN -> HALF_OPEN once resetTimeout has elapsed.
entryCheckStrict(b, t, timeout) ==
    IF b.state = OPEN /\ t - b.lastFailureTime > timeout
    THEN [b EXCEPT !.state = HALF_OPEN, !.successCount = 0]
    ELSE b

entryCheckRejectionCounts(b, t, timeout) ==
    IF b.state = OPEN /\ t - b.lastFailureTime >= timeout
    THEN [b EXCEPT !.state = HALF_OPEN, !.successCount = 0]
    ELSE IF b.state = OPEN THEN [b EXCEPT !.lastFailureTime = t] ELSE b

entryCheck(b, t, timeout) ==
    IF b.state = OPEN /\ t - b.lastFailureTime >= timeout
    THEN [b EXCEPT !.state = HALF_OPEN, !.successCount = 0]
    ELSE b

\* onSuccess, lines 219-231.
onSuccessCloseAtOne(b) ==
    LET b1 == [b EXCEPT !.failureCount = 0]
    IN  IF b1.state = HALF_OPEN
        THEN LET b2 == [b1 EXCEPT !.successCount = @ + 1]
             IN  IF b2.successCount >= 1
                 THEN [b2 EXCEPT !.state = CLOSED]
                 ELSE b2
        ELSE b1

onSuccessAnyState(b) ==
    LET b1 == [b EXCEPT !.failureCount = 0]
    IN  IF b1.state # CLOSED
        THEN LET b2 == [b1 EXCEPT !.successCount = @ + 1]
             IN  IF b2.successCount >= 2
                 THEN [b2 EXCEPT !.state = CLOSED]
                 ELSE b2
        ELSE b1

onSuccessKeepFailures(b) ==
    IF b.state = HALF_OPEN
    THEN LET b2 == [b EXCEPT !.successCount = @ + 1]
         IN  IF b2.successCount >= 2
             THEN [b2 EXCEPT !.state = CLOSED]
             ELSE b2
    ELSE b

onSuccessNoIncrement(b) ==
    LET b1 == [b EXCEPT !.failureCount = 0]
    IN  IF b1.state = HALF_OPEN
        THEN IF b1.successCount >= 2
             THEN [b1 EXCEPT !.state = CLOSED]
             ELSE b1
        ELSE b1

onSuccess(b) ==
    LET b1 == [b EXCEPT !.failureCount = 0]
    IN  IF b1.state = HALF_OPEN
        THEN LET b2 == [b1 EXCEPT !.successCount = @ + 1]
             IN  IF b2.successCount >= 2
                 THEN [b2 EXCEPT !.state = CLOSED]
                 ELSE b2
        ELSE b1

\* onFailure, lines 233-252.
onFailureExceed(b, t, threshold) ==
    LET b1 == [b EXCEPT !.failureCount = @ + 1, !.lastFailureTime = t]
    IN  IF b1.state = HALF_OPEN
        THEN [b1 EXCEPT !.state = OPEN]
        ELSE IF b1.failureCount > threshold
             THEN [b1 EXCEPT !.state = OPEN]
             ELSE b1

onFailureNoTrialBranch(b, t, threshold) ==
    LET b1 == [b EXCEPT !.failureCount = @ + 1, !.lastFailureTime = t]
    IN  IF b1.failureCount >= threshold
        THEN [b1 EXCEPT !.state = OPEN]
        ELSE b1

onFailureKeepWindow(b, t, threshold) ==
    LET b1 == [b EXCEPT !.failureCount = @ + 1,
                        !.lastFailureTime = IF b.state = OPEN THEN @ ELSE t]
    IN  IF b1.state = HALF_OPEN
        THEN [b1 EXCEPT !.state = OPEN]
        ELSE IF b1.failureCount >= threshold
             THEN [b1 EXCEPT !.state = OPEN]
             ELSE b1

onFailure(b, t, threshold) ==
    LET b1 == [b EXCEPT !.failureCount = @ + 1, !.lastFailureTime = t]
    IN  IF b1.state = HALF_OPEN
        THEN [b1 EXCEPT !.state = OPEN]
        ELSE IF b1.failureCount >= threshold
             THEN [b1 EXCEPT !.state = OPEN]
             ELSE b1

\* reset, lines 262-267.
resetKeepTime(b) ==
    [b EXCEPT !.state = CLOSED, !.failureCount = 0, !.successCount = 0]

resetKeepFailures(b) ==
    [b EXCEPT !.state = CLOSED, !.successCount = 0, !.lastFailureTime = 0]

reset(b) ==
    [state |-> CLOSED, failureCount |-> 0, successCount |-> 0,
     lastFailureTime |-> 0]

\* getState / getFailureCount, lines 254-260.
getState(b) == b.state

getFailureCount(b) == b.failureCount

\* --------------------------------------------------- JavaScript values
\* A string is the sequence of its characters.  A value is undefined, a
\* string, or an object with an optional code and an optional message.
Absent == <<"absent">>

Undefined == [type |-> "undefined", str |-> <<>>, code |-> Absent, message |-> Absent]

StrVal(s) == [type |-> "string", str |-> s, code |-> Absent, message |-> Absent]

ErrObj(code, message) ==
    [type |-> "object", str |-> <<>>, code |-> code, message |-> message]

Range(f) == {f[k] : k \in DOMAIN f}

Min(a, b) == IF a <= b THEN a ELSE b

\* String.prototype.includes
includes(text, pattern) ==
    \E k \in 0..(Len(text) - Len(pattern)) :
        SubSeq(text, k + 1, k + Len(pattern)) = pattern

\* A promise: pending, or settled with a value.
Pending      == [status |-> "pending", value |-> Undefined]
Fulfilled(v) == [status |-> "fulfilled", value |-> v]
Rejected(e)  == [status |-> "rejected", value |-> e]

\* ------------------------------------------- components that are not running
\* A constructed breaker nobody calls.
BreakerParked ==
    /\ failureThreshold = 1
    /\ resetTimeout = 1
    /\ state = CLOSED
    /\ failureCount = 0
    /\ lastFailureTime = 0
    /\ successCount = 0
    /\ now = 1
    /\ pc = [c \in Calls |-> "idle"]
    /\ event = [op |-> "new", call |-> 0, from |-> CLOSED, raised |-> NoError,
                thrown |-> NoError]
    /\ streak = 0
    /\ hoInvoked = 0
    /\ hoSuccesses = 0
    /\ trial = [c \in Calls |-> FALSE]
    /\ hoOwn = 0

\* No withRetry or batchRetry call is made.
RetryParked ==
    /\ maxAttempts = 1
    /\ initialDelay = 1
    /\ maxDelay = 1
    /\ backoffFactor = 1
    /\ retryableErrors = <<>>
    /\ rpc = [i \in Ops |-> "idle"]
    /\ attempt = [i \in Ops |-> 0]
    /\ delay = [i \in Ops |-> 0]
    /\ lastError = [i \in Ops |-> Undefined]
    /\ timer = [i \in Ops |-> 0]
    /\ outcome = [i \in Ops |-> Pending]
    /\ batch = "idle"
    /\ batchResult = <<>>
    /\ invoked = [i \in Ops |-> 0]
    /\ waited = [i \in Ops |-> <<>>]
    /\ lastThrown = [i \in Ops |-> Undefined]
    /\ resolvedWith = [i \in Ops |-> Undefined]
    /\ allRetryable = [i \in Ops |-> TRUE]

\* isRetryableError is not called.
ClassifyParked ==
    /\ clsError = Undefined
    /\ clsList = <<>>
    /\ clsResult = "none"

\* ------------------------------------------------------------ cache values
Keys      == {"a", "b"}
LruKeys   == {"a", "b", "c"}
CacheValues == 1..NumValues
NoValue   == 0          \* undefined
NoTtl     == -1         \* the ttl argument omitted
NoKey     == ""         \* undefined where a key is expected
Callers   == 1..NumCallers

\* (ttl || this.defaultTTL) * 1000, line 61
MsPerSecond == 1000

\* A slot of the Map that holds nothing.
NoEntry == [value |-> NoValue, expiresAt |-> -1]

Idle == [status |-> "idle", key |-> NoKey, ttl |-> NoTtl]

\* expired: the read found an entry whose time had passed; over: the write
\* replaced an entry that was stored.
CacheEvent(op, key, ttl, value, result, expired, over) ==
    [op |-> op, key |-> key, ttl |-> ttl, value |-> value, result |-> result,
     expired |-> expired, over |-> over]

LruEvent(op, key, had, result, evicted) ==
    [op |-> op, key |-> key, had |-> had, result |-> result, evicted |-> evicted]

\* An empty SimpleCache nobody uses.
TtlParked ==
    /\ defaultTTL = 1
    /\ cache = [k \in Keys |-> NoEntry]
    /\ cnow = 0
    /\ gpc = [c \in Callers |-> Idle]
    /\ cev = CacheEvent("new", NoKey, NoTtl, NoValue, NoValue, FALSE, FALSE)
    /\ lastSet = [k \in Keys |-> NoValue]
    /\ noSweep = [k \in Keys |-> NoEntry]

\* An empty LRUCache nobody uses.
LruParked ==
    /\ maxSize = 1
    /\ lru = <<>>
    /\ lnow = 1
    /\ lev = LruEvent("new", NoKey, FALSE, NoValue, {})
    /\ lastTouch = [k \in LruKeys |-> 0]

\* ------------------------------------------------------------------- state
\* Fields as initialised at lines 168-171; config as set by the constructor.
BreakerInit ==
    /\ failureThreshold \in 1..MaxThreshold
    /\ resetTimeout \in 1..MaxResetTimeout
    /\ state = CLOSED
    /\ failureCount = 0
    /\ lastFailureTime = 0
    /\ successCount = 0
    /\ now = 1
    /\ pc = [c \in Calls |-> "idle"]
    /\ event = Event("new", 0, NoError, NoError)
    /\ streak = 0
    /\ hoInvoked = 0
    /\ hoSuccesses = 0
    /\ trial = [c \in Calls |-> FALSE]
    /\ hoOwn = 0

\* The clock advances between steps.
Tick ==
    /\ now < MaxTime
    /\ now' = now + 1
    /\ event' = Event("tick", 0, NoError, NoError)
    /\ UNCHANGED notBreaker
    /\ UNCHANGED <<failureThreshold, resetTimeout, state, failureCount,
                   lastFailureTime, successCount, pc, streak, hoInvoked,
                   hoSuccesses, trial, hoOwn>>

\* execute up to the await: the entry check, then either the rejection or the
\* invocation of fn().
ExecuteEnter(c, context) ==
    /\ pc[c] = "idle"
    /\ LET b == entryCheck(this, now, resetTimeout)
           entered == state = OPEN /\ b.state = HALF_OPEN
       IN  IF b.state = OPEN
           THEN /\ Assign(b)
                /\ event' = Event("rejected", c, CircuitOpenError(context), NoError)
                /\ UNCHANGED <<pc, hoInvoked, hoSuccesses, trial, hoOwn>>
           ELSE /\ Assign(b)
                /\ pc' = [pc EXCEPT ![c] = "pending"]
                /\ event' = Event("invoked", c, NoError, NoError)
                /\ hoInvoked' = IF entered THEN 1
                                ELSE IF b.state = HALF_OPEN THEN Count(hoInvoked)
                                ELSE hoInvoked
                /\ hoSuccesses' = IF entered THEN 0 ELSE hoSuccesses
                /\ trial' = IF entered THEN [d \in Calls |-> d = c]
                             ELSE [trial EXCEPT ![c] = (b.state = HALF_OPEN)]
                /\ hoOwn' = IF entered THEN 0 ELSE hoOwn
    /\ UNCHANGED notBreaker
    /\ UNCHANGED <<failureThreshold, resetTimeout, now, streak>>

\* fn() resolves: onSuccess, then the result is returned.
OperationSucceeds(c) ==
    /\ pc[c] = "pending"
    /\ Assign(onSuccess(this))
    /\ pc' = [pc EXCEPT ![c] = "idle"]
    /\ event' = Event("success", c, NoError, NoError)
    /\ streak' = 0
    /\ hoSuccesses' = IF state = HALF_OPEN THEN Count(hoSuccesses) ELSE hoSuccesses
    /\ trial' = [trial EXCEPT ![c] = FALSE]
    /\ hoOwn' = IF state = HALF_OPEN /\ trial[c] THEN Count(hoOwn) ELSE hoOwn
    /\ UNCHANGED notBreaker
    /\ UNCHANGED <<failureThreshold, resetTimeout, now, hoInvoked>>

\* fn() rejects with error e: onFailure, then `throw error`.
OperationFails(c, e) ==
    /\ pc[c] = "pending"
    /\ failureCount < MaxFailureCount
    /\ Assign(onFailure(this, now, failureThreshold))
    /\ pc' = [pc EXCEPT ![c] = "idle"]
    /\ event' = Event("failure", c, e, e)
    /\ streak' = streak + 1
    /\ trial' = [trial EXCEPT ![c] = FALSE]
    /\ UNCHANGED notBreaker
    /\ UNCHANGED <<failureThreshold, resetTimeout, now, hoInvoked, hoSuccesses,
                   hoOwn>>

Reset ==
    /\ Assign(reset(this))
    /\ event' = Event("reset", 0, NoError, NoError)
    /\ streak' = 0
    /\ UNCHANGED notBreaker
    /\ UNCHANGED <<failureThreshold, resetTimeout, now, pc, hoInvoked,
                   hoSuccesses, trial, hoOwn>>

GetState ==
    /\ event' = Event("getState", 0, NoError, NoError)
    /\ getState(this) \in CircuitState
    /\ UNCHANGED notBreaker
    /\ UNCHANGED <<failureThreshold, resetTimeout, state, failureCount,
                   lastFailureTime, successCount, now, pc, streak, hoInvoked,
                   hoSuccesses, trial, hoOwn>>

GetFailureCount ==
    /\ event' = Event("getFailureCount", 0, NoError, NoError)
    /\ getFailureCount(this) \in Nat
    /\ UNCHANGED notBreaker
    /\ UNCHANGED <<failureThreshold, resetTimeout, state, failureCount,
                   lastFailureTime, successCount, now, pc, streak, hoInvoked,
                   hoSuccesses, trial, hoOwn>>

BreakerNext ==
    \/ Tick
    \/ \E c \in Calls, context \in Contexts : ExecuteEnter(c, context)
    \/ \E c \in Calls : OperationSucceeds(c)
    \/ \E c \in Calls, e \in OperationErrors : OperationFails(c, e)
    \/ Reset
    \/ GetState
    \/ GetFailureCount

\* The breaker is constructed; nothing else runs.
BreakerStart ==
    BreakerInit /\ RetryParked /\ ClassifyParked /\ TtlParked /\ LruParked

BreakerSpec == BreakerStart /\ [][BreakerNext]_vars

\* The operation is healthy from LastFailTime on: it fails only up to then.
\* Calls keep arriving, pending operations complete and the clock advances.
BreakerLiveNext ==
    \/ Tick
    \/ \E c \in Calls, context \in Contexts : ExecuteEnter(c, context)
    \/ \E c \in Calls : OperationSucceeds(c)
    \/ \E c \in Calls, e \in OperationErrors :
          now <= LastFailTime /\ OperationFails(c, e)
    \/ Reset
    \/ GetState
    \/ GetFailureCount

BreakerLiveSpec ==
    /\ BreakerStart
    /\ [][BreakerLiveNext]_vars
    /\ WF_vars(Tick)
    /\ WF_vars(\E c \in Calls, context \in Contexts : ExecuteEnter(c, context))
    /\ \A c \in Calls : WF_vars(OperationSucceeds(c))

TypeOK ==
    /\ state \in CircuitState
    /\ failureCount \in 0..MaxFailureCount
    /\ successCount \in 0..2
    /\ lastFailureTime \in 0..MaxTime
    /\ now \in 1..MaxTime

\* ================================================================= retry
\* retryableErrors of the calls: two patterns.
TO == <<"T", "O">>
RetryList == <<TO, <<"R">>>>

\* What fn() can reject with: an error whose code matches, an error whose
\* message contains a pattern, and an error that matches nothing.
EByCode    == ErrObj(TO, <<"x">>)
EByMessage == ErrObj(Absent, <<"x", "T", "O">>)
EFatal     == ErrObj(<<"N">>, <<"n">>)
ThrownErrors == {EByCode, EByMessage, EFatal}

\* What fn() can resolve with.
Values == {StrVal(<<"v">>)}

\* The classification the specification words: the code field equals one of
\* the patterns, or the message contains one of them.
Retryable(e, list) ==
    \/ e.code # Absent /\ e.code \in Range(list)
    \/ e.message # Absent /\ \E k \in 1..Len(list) : includes(e.message, list[k])

\* ----------------------------------------------------------- withRetry code
\* isRetryableError, lines 35-45.
isRetryableAlways(error, list) == TRUE

isRetryableCodeOnly(error, list) ==
    IF error.type # "object"
    THEN FALSE
    ELSE LET errorCode == error.code
         IN  errorCode # Absent /\ errorCode # <<>> /\ errorCode \in Range(list)

isRetryableError(error, list) ==
    IF error.type # "object"
    THEN FALSE
    ELSE LET errorCode    == error.code
             errorMessage == IF error.message = Absent THEN <<>> ELSE error.message
         IN  \/ errorCode # Absent /\ errorCode # <<>> /\ errorCode \in Range(list)
             \/ \E k \in 1..Len(list) : includes(errorMessage, list[k])

\* for (...; attempt <= maxAttempts; ...), line 66.
loopContinuesStrict(a, m) == a < m

loopContinues(a, m) == a <= m

\* if (attempt === maxAttempts) break, lines 73-75.
isLastAttemptNever(a, m) == FALSE

isLastAttempt(a, m) == a = m

\* lastError = error, line 70.
catchErrorKeepFirst(old, error) == IF old = Undefined THEN error ELSE old

catchError(old, error) == error

\* delay = Math.min(delay * backoffFactor, maxDelay), line 96.
nextDelay(d, factor, cap) == Min(d * factor, cap)

\* sleep(ms) resolves when the timer has run ms milliseconds, lines 29-30.
sleepResolvedAtOnce(left) == TRUE

sleepResolved(left) == left = 0

\* batchRetry, lines 139-142: withRetry(...).catch((error) => error)
captureNothing(p) == p

capture(p) ==
    IF p.status = "rejected" THEN Fulfilled(p.value) ELSE p

\* operations.map(...) runs its callback for every operation before returning.
mappedFirstOnly(n) == {1}

mapped(n) == 1..n

\* Promise.all over the captured promises.
promiseAll(ps) ==
    IF \E i \in DOMAIN ps : ps[i].status = "rejected"
    THEN Rejected((ps[CHOOSE i \in DOMAIN ps : ps[i].status = "rejected"]).value)
    ELSE IF \A i \in DOMAIN ps : ps[i].status = "fulfilled"
         THEN Fulfilled([i \in DOMAIN ps |-> ps[i].value])
         ELSE Pending

\* ------------------------------------------------------------ retry state
RetryInit ==
    /\ maxAttempts \in 0..MaxAttempts
    /\ initialDelay \in 1..MaxInitialDelay
    /\ maxDelay \in 1..MaxMaxDelay
    /\ backoffFactor \in 1..MaxFactor
    /\ retryableErrors = RetryList
    /\ rpc = [i \in Ops |-> "idle"]
    /\ attempt = [i \in Ops |-> 0]
    /\ delay = [i \in Ops |-> 0]
    /\ lastError = [i \in Ops |-> Undefined]
    /\ timer = [i \in Ops |-> 0]
    /\ outcome = [i \in Ops |-> Pending]
    /\ batch = "idle"
    /\ batchResult = <<>>
    /\ invoked = [i \in Ops |-> 0]
    /\ waited = [i \in Ops |-> <<>>]
    /\ lastThrown = [i \in Ops |-> Undefined]
    /\ resolvedWith = [i \in Ops |-> Undefined]
    /\ allRetryable = [i \in Ops |-> TRUE]

\* The head of the for loop, reached by the calls in S with attempt number a:
\* either fn() is invoked or the loop is left and lastError is thrown
\* (lines 66-68 and 99-106).  lastError' is set by the caller.
LoopHead(S, a) ==
    /\ attempt' = [i \in Ops |-> IF i \in S THEN a ELSE attempt[i]]
    /\ rpc' = [i \in Ops |->
                 IF i \notin S THEN rpc[i]
                 ELSE IF loopContinues(a, maxAttempts) THEN "calling"
                 ELSE "rejected"]
    /\ invoked' = [i \in Ops |->
                     IF i \in S /\ loopContinues(a, maxAttempts)
                     THEN invoked[i] + 1 ELSE invoked[i]]
    /\ outcome' = [i \in Ops |->
                     IF i \in S /\ ~loopContinues(a, maxAttempts)
                     THEN Rejected(lastError'[i]) ELSE outcome[i]]

\* withRetry(fn, config) called directly: lines 51-68.
WithRetry(i) ==
    /\ batch = "idle"
    /\ rpc[i] = "idle"
    /\ delay' = [delay EXCEPT ![i] = initialDelay]
    /\ lastError' = [lastError EXCEPT ![i] = Undefined]
    /\ LoopHead({i}, 1)
    /\ UNCHANGED <<maxAttempts, initialDelay, maxDelay, backoffFactor,
                   retryableErrors, timer, batch, batchResult, waited,
                   lastThrown, resolvedWith, allRetryable>>
    /\ UNCHANGED notRetry

\* fn() resolves with v: return await fn(), line 68.
FnResolves(i, v) ==
    /\ rpc[i] = "calling"
    /\ rpc' = [rpc EXCEPT ![i] = "returned"]
    /\ outcome' = [outcome EXCEPT ![i] = Fulfilled(v)]
    /\ resolvedWith' = [resolvedWith EXCEPT ![i] = v]
    /\ UNCHANGED <<maxAttempts, initialDelay, maxDelay, backoffFactor,
                   retryableErrors, attempt, delay, lastError, timer, batch,
                   batchResult, invoked, waited, lastThrown, allRetryable>>
    /\ UNCHANGED notRetry

\* fn() rejects with e: the catch block, lines 69-93, up to await sleep(delay).
FnRejects(i, e) ==
    /\ rpc[i] = "calling"
    /\ lastError' = [lastError EXCEPT ![i] = catchError(@, e)]
    /\ lastThrown' = [lastThrown EXCEPT ![i] = e]
    /\ allRetryable' = [allRetryable EXCEPT ![i] = @ /\ Retryable(e, retryableErrors)]
    /\ IF isLastAttempt(attempt[i], maxAttempts)
       THEN \* break; then throw lastError
            /\ rpc' = [rpc EXCEPT ![i] = "rejected"]
            /\ outcome' = [outcome EXCEPT ![i] = Rejected(lastError'[i])]
            /\ UNCHANGED <<timer, waited>>
       ELSE IF ~isRetryableError(e, retryableErrors)
       THEN \* throw error
            /\ rpc' = [rpc EXCEPT ![i] = "rejected"]
            /\ outcome' = [outcome EXCEPT ![i] = Rejected(e)]
            /\ UNCHANGED <<timer, waited>>
       ELSE \* await sleep(delay)
            /\ rpc' = [rpc EXCEPT ![i] = "sleeping"]
            /\ timer' = [timer EXCEPT ![i] = delay[i]]
            /\ waited' = [waited EXCEPT ![i] = Append(@, delay[i])]
            /\ UNCHANGED outcome
    /\ UNCHANGED <<maxAttempts, initialDelay, maxDelay, backoffFactor,
                   retryableErrors, attempt, delay, batch, batchResult,
                   invoked, resolvedWith>>
    /\ UNCHANGED notRetry

\* One millisecond passes for every running timer.
Elapse ==
    /\ \E i \in Ops : rpc[i] = "sleeping" /\ timer[i] > 0
    /\ timer' = [i \in Ops |->
                   IF rpc[i] = "sleeping" /\ timer[i] > 0
                   THEN timer[i] - 1 ELSE timer[i]]
    /\ UNCHANGED <<maxAttempts, initialDelay, maxDelay, backoffFactor,
                   retryableErrors, rpc, attempt, delay, lastError, outcome,
                   batch, batchResult, invoked, waited, lastThrown,
                   resolvedWith, allRetryable>>
    /\ UNCHANGED notRetry

\* sleep(delay) resolves: line 96, attempt++ and the loop head.
SleepResolves(i) ==
    /\ rpc[i] = "sleeping"
    /\ sleepResolved(timer[i])
    /\ delay' = [delay EXCEPT ![i] = nextDelay(@, backoffFactor, maxDelay)]
    /\ LoopHead({i}, attempt[i] + 1)
    /\ UNCHANGED <<maxAttempts, initialDelay, maxDelay, backoffFactor,
                   retryableErrors, lastError, timer, batch, batchResult,
                   waited, lastThrown, resolvedWith, allRetryable>>
    /\ UNCHANGED notRetry

\* batchRetry(operations, config) up to the await of Promise.all: the map
\* callback calls withRetry for every operation, lines 138-143.
BatchRetry ==
    /\ batch = "idle"
    /\ \A i \in Ops : rpc[i] = "idle"
    /\ batch' = "running"
    /\ delay' = [i \in Ops |-> IF i \in mapped(NumOps) THEN initialDelay ELSE delay[i]]
    /\ lastError' = lastError
    /\ LoopHead(mapped(NumOps), 1)
    /\ UNCHANGED <<maxAttempts, initialDelay, maxDelay, backoffFactor,
                   retryableErrors, timer, batchResult, waited, lastThrown,
                   resolvedWith, allRetryable>>
    /\ UNCHANGED notRetry

\* Promise.all settles, and with it the promise batchRetry returned.
BatchSettles ==
    /\ batch = "running"
    /\ LET all == promiseAll([i \in Ops |-> capture(outcome[i])])
       IN  /\ all.status # "pending"
           /\ batch' = IF all.status = "fulfilled" THEN "done" ELSE "rejected"
           /\ batchResult' = all.value
    /\ UNCHANGED <<maxAttempts, initialDelay, maxDelay, backoffFactor,
                   retryableErrors, rpc, attempt, delay, lastError, timer,
                   outcome, invoked, waited, lastThrown, resolvedWith,
                   allRetryable>>
    /\ UNCHANGED notRetry

RetryNext ==
    \/ \E i \in Ops : WithRetry(i)
    \/ \E i \in Ops, v \in Values : FnResolves(i, v)
    \/ \E i \in Ops, e \in ThrownErrors : FnRejects(i, e)
    \/ Elapse
    \/ \E i \in Ops : SleepResolves(i)
    \/ BatchRetry
    \/ BatchSettles

\* The retry configuration is chosen; nothing else runs.
RetryStart ==
    RetryInit /\ BreakerParked /\ ClassifyParked /\ TtlParked /\ LruParked

RetrySpec == RetryStart /\ [][RetryNext]_vars

\* ------------------------------------------------- isRetryableError alone
\* Arguments of a call of isRetryableError: thrown values of every shape and
\* pattern lists including the empty list and the empty pattern.
ClsCodes    == {Absent, <<>>, TO, <<"N">>}
ClsMessages == {Absent, <<>>, TO, <<"x", "T", "O">>, <<"n">>}
ClsErrors ==
    {Undefined, StrVal(TO)}
        \cup {ErrObj(c, m) : c \in ClsCodes, m \in ClsMessages}
ClsLists == {<<>>, <<TO>>, RetryList, <<<<>>>>, <<<<"N">>, <<>>>>}

ClassifyInit ==
    /\ clsError \in ClsErrors
    /\ clsList \in ClsLists
    /\ clsResult = "none"

Classify ==
    /\ clsResult = "none"
    /\ clsResult' = IF isRetryableError(clsError, clsList) THEN "true" ELSE "false"
    /\ UNCHANGED <<clsError, clsList>>
    /\ UNCHANGED notClassify

ClassifyNext == Classify

\* The arguments are chosen; nothing else runs.
ClassifyStart ==
    ClassifyInit /\ BreakerParked /\ RetryParked /\ TtlParked /\ LruParked

ClassifySpec == ClassifyStart /\ [][ClassifyNext]_vars

\* ------------------------------------------------------------------ claims
\* A step in which some call site called execute (admitted or rejected).
ExecuteCalled == event'.op \in {"invoked", "rejected"}

\* C1: in CLOSED, the failure that completes a run of failureThreshold
\* consecutive failures (none since the last success or reset) opens the
\* breaker; an execute call made while OPEN with
\* now - lastFailureTime < resetTimeout is rejected with the circuit-open
\* error, invokes no operation and leaves every call site as it was.
C1_OpensAtThresholdThenRejects ==
    [][ /\ (event'.op = "failure" /\ state = CLOSED
                /\ streak' >= failureThreshold)
            => state' = OPEN
        /\ (ExecuteCalled /\ state = OPEN
                /\ now - lastFailureTime < resetTimeout)
            => /\ event'.op = "rejected"
               /\ event'.raised \in {CircuitOpenError(x) : x \in Contexts}
               /\ pc' = pc
               /\ state' = OPEN
      ]_vars

C1_Witness ==
    /\ event.op = "rejected"
    /\ state = OPEN
    /\ failureThreshold = MaxThreshold
    /\ streak = failureThreshold
    /\ now - lastFailureTime < resetTimeout

\* C2: an execute call made while OPEN with
\* now - lastFailureTime >= resetTimeout moves the breaker to HALF_OPEN, sets
\* successCount to 0 and invokes the operation in that same call.
C2_TimeoutElapsedAdmitsTrial ==
    [][ (ExecuteCalled /\ state = OPEN
            /\ now - lastFailureTime >= resetTimeout)
        => /\ state' = HALF_OPEN
           /\ successCount' = 0
           /\ event'.op = "invoked"
           /\ pc[event'.call] = "idle"
           /\ pc'[event'.call] = "pending"
      ]_vars

\* The boundary: exactly resetTimeout after the last failure.
C2_Witness ==
    /\ event.op = "invoked"
    /\ event.from = OPEN
    /\ state = HALF_OPEN
    /\ now - lastFailureTime = resetTimeout
    /\ pc[event.call] = "pending"

\* C3: a success completing in HALF_OPEN leaves the breaker HALF_OPEN when it
\* is the first since HALF_OPEN was entered and closes it when it is the
\* second; execute never takes the breaker from HALF_OPEN to CLOSED with
\* fewer than 2 successes since HALF_OPEN was entered (reset() is the forced
\* close of C10, not a close by successes).
C3_TwoSuccessesClose ==
    [][ /\ (event'.op = "success" /\ state = HALF_OPEN)
            => /\ hoSuccesses' = 1 => state' = HALF_OPEN
               /\ hoSuccesses' = 2 => state' = CLOSED
               /\ hoSuccesses' \in {1, 2}
        /\ (state = HALF_OPEN /\ state' = CLOSED /\ event'.op # "reset")
            => event'.op = "success" /\ hoSuccesses' >= 2
      ]_vars

C3_Witness ==
    /\ event.op = "success"
    /\ event.from = HALF_OPEN
    /\ state = CLOSED
    /\ hoSuccesses = 2

\* C4: a failure completing in HALF_OPEN opens the breaker at once, whatever
\* the counters are, sets lastFailureTime to now and raises to the caller the
\* very error the operation threw.
C4_TrialFailureReopens ==
    [][ (event'.op = "failure" /\ state = HALF_OPEN)
        => /\ state' = OPEN
           /\ lastFailureTime' = now
           /\ event'.raised = event'.thrown
           /\ event'.raised \in OperationErrors
      ]_vars

\* A trial failure after one trial success, below the threshold.
C4_Witness ==
    /\ event.op = "failure"
    /\ event.from = HALF_OPEN
    /\ state = OPEN
    /\ hoSuccesses = 1
    /\ failureCount < failureThreshold

\* C5: the breaker starts CLOSED and its state changes only by
\* CLOSED->OPEN, OPEN->HALF_OPEN, HALF_OPEN->CLOSED, HALF_OPEN->OPEN, or by
\* reset() to CLOSED.
AllowedTransitions ==
    {<<CLOSED, OPEN>>, <<OPEN, HALF_OPEN>>, <<HALF_OPEN, CLOSED>>,
     <<HALF_OPEN, OPEN>>}

C5_OnlyDocumentedTransitions ==
    /\ state = CLOSED
    /\ [][ state' # state
            => \/ event'.op = "reset" /\ state' = CLOSED
               \/ event'.op # "reset" /\ <<state, state'>> \in AllowedTransitions
          ]_vars

\* The breaker opens while another call is still pending.
C5_Witness ==
    /\ event.op = "failure"
    /\ event.from = CLOSED
    /\ state = OPEN
    /\ \E c \in Calls : pc[c] = "pending"

\* C6: every success sets failureCount to 0, and the breaker goes
\* CLOSED->OPEN only on a failure that completes at least failureThreshold
\* failures with no success (or reset) between them.
C6_OnlyConsecutiveFailuresOpen ==
    [][ /\ event'.op = "success" => failureCount' = 0
        /\ (state = CLOSED /\ state' = OPEN)
            => event'.op = "failure" /\ streak' >= failureThreshold
      ]_vars

\* Reopened after a HALF_OPEN period that ended in CLOSED, by exactly
\* failureThreshold new failures.
C6_Witness ==
    /\ event.op = "failure"
    /\ event.from = CLOSED
    /\ state = OPEN
    /\ hoSuccesses = 2
    /\ failureThreshold = MaxThreshold
    /\ streak = failureThreshold

\* C7: during one HALF_OPEN period at most 2 operations are invoked.
C7_TrialCallsLimited == hoInvoked <= 2

\* C8: the error raised by a rejected execute call is none of the errors a
\* wrapped operation can raise.
C8_RejectionDistinguishable ==
    event.op = "rejected" => event.raised \notin OperationErrors

\* C9: when calls keep arriving, time advances and the operation eventually
\* always succeeds, the breaker eventually is CLOSED for good.
C9_EventuallyClosedForGood == <>[](state = CLOSED)

\* Closed by two trial successes after the operation recovered.
C9_Witness ==
    /\ now > LastFailTime
    /\ event.op = "success"
    /\ event.from = HALF_OPEN
    /\ state = CLOSED

\* C10: reset() sets state = CLOSED and the three counters to 0; an execute
\* call made in the state reset() leaves (CLOSED) invokes the operation;
\* getState() and getFailureCount() change no field.
C10_ResetAndGetters ==
    [][ /\ event'.op = "reset"
            => /\ state' = CLOSED
               /\ failureCount' = 0
               /\ successCount' = 0
               /\ lastFailureTime' = 0
        /\ (event.op = "reset" /\ ExecuteCalled)
            => event'.op = "invoked" /\ pc'[event'.call] = "pending"
        /\ event'.op \in {"getState", "getFailureCount"}
            => UNCHANGED <<state, failureCount, lastFailureTime, successCount>>
      ]_vars

\* reset() called on an open breaker.
C10_Witness ==
    /\ event.op = "reset"
    /\ event.from = OPEN
    /\ state = CLOSED
    /\ lastFailureTime = 0

\* ----------------------------------------------------------- retry claims
Settled(i) == rpc[i] \in {"returned", "rejected"}

\* A step in which the pending fn() of call i rejected.
FnRejected(i) == rpc[i] = "calling" /\ rpc'[i] \in {"rejected", "sleeping"}

\* C11: when the first invocation of the operation fails with a
\* non-retryable error, withRetry rejects at once with that very error,
\* having invoked the operation once and waited no delay; a settled call
\* invokes nothing more.
C11_NonRetryableFailsAtOnce ==
    [][ \A i \in Ops :
          /\ (FnRejected(i) /\ invoked[i] = 1
                 /\ ~Retryable(lastThrown'[i], retryableErrors))
             => /\ rpc'[i] = "rejected"
                /\ outcome'[i] = Rejected(lastThrown'[i])
                /\ invoked'[i] = 1
                /\ waited'[i] = <<>>
          /\ Settled(i)
             => /\ rpc'[i] = rpc[i]
                /\ invoked'[i] = invoked[i]
                /\ waited'[i] = waited[i]
                /\ outcome'[i] = outcome[i]
      ]_vars

C11_Witness ==
    \E i \in Ops :
        /\ maxAttempts = MaxAttempts
        /\ rpc[i] = "rejected"
        /\ invoked[i] = 1
        /\ waited[i] = <<>>
        /\ outcome[i] = Rejected(EFatal)

\* C12: when the maxAttempts-th invocation succeeds (the maxAttempts - 1
\* before it failed), withRetry returns the value the operation resolved
\* with and the operation has been invoked exactly maxAttempts times; a call
\* whose failures were all retryable is never given up before the
\* maxAttempts-th invocation, and no call invokes the operation more than
\* maxAttempts times.
C12_SucceedsOnLastAttempt ==
    [][ \A i \in Ops :
          /\ (rpc[i] = "calling" /\ rpc'[i] = "returned"
                 /\ invoked[i] = maxAttempts)
             => /\ outcome'[i] = Fulfilled(resolvedWith'[i])
                /\ resolvedWith'[i] \in Values
                /\ invoked'[i] = maxAttempts
          /\ (rpc'[i] = "rejected" /\ allRetryable'[i])
             => invoked'[i] >= maxAttempts
          /\ invoked'[i] >= 1 => invoked'[i] <= maxAttempts
          /\ rpc[i] = "returned"
             => rpc'[i] = "returned" /\ invoked'[i] = invoked[i]
      ]_vars

C12_Witness ==
    \E i \in Ops :
        /\ maxAttempts = MaxAttempts
        /\ rpc[i] = "returned"
        /\ invoked[i] = maxAttempts
        /\ Len(waited[i]) = maxAttempts - 1
        /\ outcome[i].status = "fulfilled"

\* C13: a call rejected after nothing but retryable failures has invoked the
\* operation exactly maxAttempts times and is rejected with what the last
\* invocation threw.
C13_ExhaustedRejectsWithLastError ==
    \A i \in Ops :
        (rpc[i] = "rejected" /\ allRetryable[i])
        => /\ invoked[i] = maxAttempts
           /\ outcome[i] = Rejected(lastThrown[i])

C13_Witness ==
    \E i \in Ops :
        /\ maxAttempts = MaxAttempts
        /\ rpc[i] = "rejected"
        /\ allRetryable[i]
        /\ invoked[i] = maxAttempts
        /\ outcome[i] = Rejected(EByMessage)

RECURSIVE Pow(_, _)
Pow(b, n) == IF n = 0 THEN 1 ELSE b * Pow(b, n - 1)

\* C14: the k-th delay waited equals
\* min(initialDelay * backoffFactor^(k-1), maxDelay).
C14_DelayFormula ==
    \A i \in Ops : \A k \in 1..Len(waited[i]) :
        waited[i][k] = Min(initialDelay * Pow(backoffFactor, k - 1), maxDelay)

\* C15: a settled call has invoked the operation at least once and at most
\* maxAttempts times.
C15_AttemptsBounded ==
    \A i \in Ops :
        Settled(i) => invoked[i] >= 1 /\ invoked[i] <= maxAttempts

\* C16: a delay is started only by a retryable failure of an invocation that
\* is not the maxAttempts-th; so a call that invoked the operation has
\* waited one delay per invocation while it sleeps and one less otherwise,
\* in particular once it has settled.
C16_DelaysOnlyBetweenAttempts ==
    [][ \A i \in Ops :
          /\ waited'[i] # waited[i]
             => /\ FnRejected(i)
                /\ rpc'[i] = "sleeping"
                /\ Retryable(lastThrown'[i], retryableErrors)
                /\ invoked[i] < maxAttempts
                /\ Len(waited'[i]) = Len(waited[i]) + 1
          /\ invoked'[i] >= 1
             => Len(waited'[i]) = IF rpc'[i] = "sleeping"
                                  THEN invoked'[i] ELSE invoked'[i] - 1
      ]_vars

C16_Witness ==
    \E i \in Ops :
        /\ maxAttempts = MaxAttempts
        /\ rpc[i] = "rejected"
        /\ allRetryable[i]
        /\ invoked[i] = maxAttempts
        /\ Len(waited[i]) = maxAttempts - 1

\* C17: a further invocation is started only by a call whose previous
\* invocation failed and whose sleep has run its whole delay; invocations of
\* one call never overlap.
C17_AttemptsSequential ==
    [][ \A i \in Ops :
          invoked'[i] # invoked[i]
          => /\ invoked'[i] = invoked[i] + 1
             /\ rpc'[i] = "calling"
             /\ \/ invoked[i] = 0 /\ rpc[i] = "idle"
                \/ /\ rpc[i] = "sleeping"
                   /\ timer[i] = 0
                   /\ lastThrown[i] # Undefined
                   /\ Len(waited[i]) = invoked[i]
      ]_vars

\* A second invocation after a delay of more than one millisecond.
C17_Witness ==
    \E i \in Ops :
        /\ rpc[i] = "calling"
        /\ invoked[i] = 2
        /\ waited[i] = <<MaxInitialDelay>>
        /\ timer[i] = 0

MessageOrEmpty(e) == IF e.message = Absent THEN <<>> ELSE e.message

C19_BatchOutcomesIndividual ==
    [][ /\ batch' # "rejected"
        /\ batch' = "done"
           => /\ DOMAIN batchResult' = Ops
              /\ \A i \in Ops :
                    /\ Settled(i)'
                    /\ batchResult'[i] = IF rpc'[i] = "returned"
                                         THEN resolvedWith'[i]
                                         ELSE lastThrown'[i]
        /\ \A i \in Ops : \A j \in Ops \ {i} :
              (batch = "running" /\ rpc'[i] # rpc[i])
              => /\ rpc'[j] = rpc[j]
                 /\ invoked'[j] = invoked[j]
                 /\ outcome'[j] = outcome[j]
      ]_vars

\* One operation failed at once, another was retried and succeeded.
C19_Witness ==
    /\ batch = "done"
    /\ \E i \in Ops, j \in Ops :
          /\ rpc[i] = "rejected"
          /\ invoked[i] = 1
          /\ batchResult[i] = EFatal
          /\ rpc[j] = "returned"
          /\ invoked[j] = MaxAttempts

\* C20: the step that calls batchRetry issues the first invocation of every
\* operation, and batchRetry settles only when every call has settled.
C20_BatchStartsAllJoinsAll ==
    [][ /\ (batch = "idle" /\ batch' = "running" /\ maxAttempts >= 1)
           => \A i \in Ops : rpc'[i] = "calling" /\ invoked'[i] = 1
        /\ (batch = "running" /\ batch' # "running")
           => \A i \in Ops : Settled(i)
      ]_vars

\* Every operation is in flight and none has been awaited.
C20_Witness ==
    /\ batch = "running"
    /\ \A i \in Ops : rpc[i] = "calling" /\ invoked[i] = 1

\* ================================================================ SimpleCache
\* The clock is read in milliseconds and observed on whole seconds, so that
\* now = expiresAt occurs as well as now < expiresAt and now > expiresAt.
ClockGrid == {s * MsPerSecond : s \in 0..MaxSeconds}
\* ttl arguments of set: omitted, zero, or positive and different from the default
TtlArgs      == {NoTtl, 0, MaxTTL}
\* ttl arguments of getOrSet: omitted, or positive and different from the default
FetchTtlArgs == {NoTtl, MaxTTL}
DefaultTTLs  == 1..(MaxTTL - 1)

\* The keys of the Map; this.cache.size is their number.
storedKeys(m) == {k \in DOMAIN m : m[k] # NoEntry}

\* ttl || this.defaultTTL: undefined and 0 are both falsy.
orDefault(ttl, dflt) == IF ttl = NoTtl \/ ttl = 0 THEN dflt ELSE ttl

SimpleCache_set(m, key, value, ttl, t, dflt) ==
    [m EXCEPT ![key] = [value     |-> value,
                        expiresAt |-> t + orDefault(ttl, dflt) * MsPerSecond]]

SimpleCache_getAtDeadline(m, key, t) ==
    LET entry == m[key] IN
    IF entry = NoEntry THEN [map |-> m, result |-> NoValue]
    ELSE IF t >= entry.expiresAt
         THEN [map |-> [m EXCEPT ![key] = NoEntry], result |-> NoValue]
         ELSE [map |-> m, result |-> entry.value]

SimpleCache_getKeepsExpired(m, key, t) ==
    LET entry == m[key] IN
    IF entry = NoEntry THEN [map |-> m, result |-> NoValue]
    ELSE IF t > entry.expiresAt
         THEN [map |-> m, result |-> NoValue]
         ELSE [map |-> m, result |-> entry.value]

SimpleCache_getIgnoresExpiry(m, key, t) ==
    LET entry == m[key] IN
    IF entry = NoEntry THEN [map |-> m, result |-> NoValue]
    ELSE [map |-> m, result |-> entry.value]

SimpleCache_getSweeps(m, key, t) ==
    LET entry == m[key] IN
    IF entry = NoEntry THEN [map |-> m, result |-> NoValue]
    ELSE IF t > entry.expiresAt
         THEN [map    |-> [k \in DOMAIN m |->
                            IF m[k] # NoEntry /\ t > m[k].expiresAt THEN NoEntry
                            ELSE m[k]],
               result |-> NoValue]
         ELSE [map |-> m, result |-> entry.value]

SimpleCache_get(m, key, t) ==
    LET entry == m[key] IN
    IF entry = NoEntry THEN [map |-> m, result |-> NoValue]
    ELSE IF t > entry.expiresAt
         THEN [map |-> [m EXCEPT ![key] = NoEntry], result |-> NoValue]
         ELSE [map |-> m, result |-> entry.value]

SimpleCache_has(m, key, t) ==
    LET r == SimpleCache_get(m, key, t) IN
    [map |-> r.map, result |-> r.result # NoValue]

SimpleCache_delete(m, key) ==
    [map |-> [m EXCEPT ![key] = NoEntry], result |-> m[key] # NoEntry]

SimpleCache_clearNothing(m) == m

SimpleCache_clear(m) == [k \in DOMAIN m |-> NoEntry]

SimpleCache_size(m) == Cardinality(storedKeys(m))

SimpleCache_cleanupAtDeadline(m, t) ==
    LET gone == {k \in storedKeys(m) : t >= m[k].expiresAt} IN
    [map     |-> [k \in DOMAIN m |-> IF k \in gone THEN NoEntry ELSE m[k]],
     removed |-> Cardinality(gone)]

SimpleCache_cleanupAll(m, t) ==
    LET gone == storedKeys(m) IN
    [map     |-> [k \in DOMAIN m |-> IF k \in gone THEN NoEntry ELSE m[k]],
     removed |-> Cardinality(gone)]

\* The loop visits every entry: deleting the entry being visited does not
\* disturb a Map iteration.
SimpleCache_cleanup(m, t) ==
    LET gone == {k \in storedKeys(m) : t > m[k].expiresAt} IN
    [map     |-> [k \in DOMAIN m |-> IF k \in gone THEN NoEntry ELSE m[k]],
     removed |-> Cardinality(gone)]

\* getOrSet after its await: this.set(key, value, ttl); return value
getOrSetResumeDefault(m, key, value, ttl, t, dflt) ==
    [map |-> SimpleCache_set(m, key, value, NoTtl, t, dflt), result |-> value]

getOrSetResumeIfAbsent(m, key, value, ttl, t, dflt) ==
    [map    |-> IF m[key] # NoEntry THEN m
                ELSE SimpleCache_set(m, key, value, ttl, t, dflt),
     result |-> value]

getOrSetResume(m, key, value, ttl, t, dflt) ==
    [map |-> SimpleCache_set(m, key, value, ttl, t, dflt), result |-> value]

\* What fetchFn() can reject with, and what getOrSet then rejects with: the
\* await is in no try block.
FetchErrors == CacheValues

getOrSetThrows(error) == error

\* The entry under key is stored and its time has not passed.
Live(m, key, t) == m[key] # NoEntry /\ t <= m[key].expiresAt

\* The entry under key is stored and its time has passed.
Expired(m, key, t) == m[key] # NoEntry /\ t > m[key].expiresAt

TtlInit ==
    /\ defaultTTL \in DefaultTTLs
    /\ cache = [k \in Keys |-> NoEntry]
    /\ cnow = 0
    /\ gpc = [c \in Callers |-> Idle]
    /\ cev = CacheEvent("new", NoKey, NoTtl, NoValue, NoValue, FALSE, FALSE)
    /\ lastSet = [k \in Keys |-> NoValue]
    /\ noSweep = [k \in Keys |-> NoEntry]

CacheAdvance ==
    \E t \in ClockGrid :
        /\ t > cnow
        /\ cnow' = t
        /\ cev' = CacheEvent("advance",
                         NoKey, NoTtl, NoValue, NoValue, FALSE, FALSE)
        /\ UNCHANGED <<defaultTTL, cache, gpc, lastSet, noSweep>>
        /\ UNCHANGED notTtl

CacheSet(key, value, ttl) ==
    /\ cache' = SimpleCache_set(cache, key, value, ttl, cnow, defaultTTL)
    /\ noSweep' = SimpleCache_set(noSweep, key, value, ttl, cnow, defaultTTL)
    /\ lastSet' = [lastSet EXCEPT ![key] = value]
    /\ cev' = CacheEvent("set",
                         key, ttl, NoValue, NoValue, FALSE, cache[key] # NoEntry)
    /\ UNCHANGED <<defaultTTL, cnow, gpc>>
    /\ UNCHANGED notTtl

CacheGet(key) ==
    LET r == SimpleCache_get(cache, key, cnow) IN
    /\ cache' = r.map
    /\ noSweep' = SimpleCache_get(noSweep, key, cnow).map
    /\ cev' = CacheEvent("get",
                         key, NoTtl, NoValue, r.result, Expired(cache, key, cnow), FALSE)
    /\ UNCHANGED <<defaultTTL, cnow, gpc, lastSet>>
    /\ UNCHANGED notTtl

CacheHas(key) ==
    LET r == SimpleCache_has(cache, key, cnow) IN
    /\ cache' = r.map
    /\ noSweep' = SimpleCache_has(noSweep, key, cnow).map
    /\ cev' = CacheEvent("has",
                         key, NoTtl, NoValue, IF r.result THEN 1 ELSE 0,
                         Expired(cache, key, cnow), FALSE)
    /\ UNCHANGED <<defaultTTL, cnow, gpc, lastSet>>
    /\ UNCHANGED notTtl

CacheDelete(key) ==
    LET r == SimpleCache_delete(cache, key) IN
    /\ cache' = r.map
    /\ noSweep' = SimpleCache_delete(noSweep, key).map
    /\ lastSet' = [lastSet EXCEPT ![key] = NoValue]
    /\ cev' = CacheEvent("delete",
                         key, NoTtl, NoValue, IF r.result THEN 1 ELSE 0, FALSE, FALSE)
    /\ UNCHANGED <<defaultTTL, cnow, gpc>>
    /\ UNCHANGED notTtl

CacheClear ==
    /\ cache' = SimpleCache_clear(cache)
    /\ noSweep' = SimpleCache_clear(noSweep)
    /\ lastSet' = [k \in Keys |-> NoValue]
    /\ cev' = CacheEvent("clear",
                         NoKey, NoTtl, NoValue, NoValue, FALSE, FALSE)
    /\ UNCHANGED <<defaultTTL, cnow, gpc>>
    /\ UNCHANGED notTtl

CacheSize ==
    /\ cev' = CacheEvent("size",
                         NoKey, NoTtl, NoValue, SimpleCache_size(cache), FALSE, FALSE)
    /\ UNCHANGED <<defaultTTL, cache, cnow, gpc, lastSet, noSweep>>
    /\ UNCHANGED notTtl

\* cleanup(), called directly or by the interval timer
Cleanup ==
    LET r == SimpleCache_cleanup(cache, cnow) IN
    /\ cache' = r.map
    /\ cev' = CacheEvent("cleanup",
                         NoKey, NoTtl, NoValue, r.removed, FALSE, FALSE)
    /\ UNCHANGED <<defaultTTL, cnow, gpc, lastSet, noSweep>>
    /\ UNCHANGED notTtl

\* getOrSet up to its return of the cached value or its await of fetchFn()
GetOrSet(c, key, ttl) ==
    LET r == SimpleCache_get(cache, key, cnow) IN
    /\ gpc[c] = Idle
    /\ cache' = r.map
    /\ noSweep' = SimpleCache_get(noSweep, key, cnow).map
    /\ gpc' = IF r.result # NoValue THEN gpc
              ELSE [gpc EXCEPT ![c] = [status |-> "fetching", key |-> key, ttl |-> ttl]]
    /\ cev' = CacheEvent(IF r.result # NoValue THEN "getOrSetHit" ELSE "getOrSetFetch",
                         key, NoTtl, NoValue, r.result, Expired(cache, key, cnow), FALSE)
    /\ UNCHANGED <<defaultTTL, cnow, lastSet>>
    /\ UNCHANGED notTtl

\* fetchFn() resolves: getOrSet stores the value and returns it
FetchResolves(c, value) ==
    LET r == getOrSetResume(cache, gpc[c].key, value, gpc[c].ttl, cnow, defaultTTL) IN
    /\ gpc[c].status = "fetching"
    /\ cache' = r.map
    /\ noSweep' = getOrSetResume(noSweep, gpc[c].key, value, gpc[c].ttl,
                                 cnow, defaultTTL).map
    /\ lastSet' = [lastSet EXCEPT ![gpc[c].key] = value]
    /\ gpc' = [gpc EXCEPT ![c] = Idle]
    /\ cev' = CacheEvent("getOrSetReturn",
                         gpc[c].key, NoTtl, value, r.result, FALSE,
                         cache[gpc[c].key] # NoEntry)
    /\ UNCHANGED <<defaultTTL, cnow>>
    /\ UNCHANGED notTtl

\* fetchFn() rejects with error: nothing catches it, getOrSet rejects with it
FetchRejects(c, error) ==
    /\ gpc[c].status = "fetching"
    /\ gpc' = [gpc EXCEPT ![c] = Idle]
    /\ cev' = CacheEvent("getOrSetThrow",
                         gpc[c].key, NoTtl, error, getOrSetThrows(error), FALSE, FALSE)
    /\ UNCHANGED <<defaultTTL, cache, cnow, lastSet, noSweep>>
    /\ UNCHANGED notTtl

TtlNext ==
    \/ CacheAdvance
    \/ \E key \in Keys, value \in CacheValues, ttl \in TtlArgs : CacheSet(key, value, ttl)
    \/ \E key \in Keys : CacheGet(key)
    \/ \E key \in Keys : CacheHas(key)
    \/ \E key \in Keys : CacheDelete(key)
    \/ CacheClear
    \/ CacheSize
    \/ Cleanup
    \/ \E c \in Callers, key \in Keys, ttl \in FetchTtlArgs : GetOrSet(c, key, ttl)
    \/ \E c \in Callers, value \in CacheValues : FetchResolves(c, value)
    \/ \E c \in Callers, error \in FetchErrors : FetchRejects(c, error)

TtlStart ==
    TtlInit /\ BreakerParked /\ RetryParked /\ ClassifyParked /\ LruParked

TtlSpec == TtlStart /\ [][TtlNext]_vars

TtlTypeOK ==
    /\ cnow \in ClockGrid
    /\ \A k \in Keys : cache[k] = NoEntry \/ cache[k].value \in CacheValues

\* ------------------------------------------------------ SimpleCache claims
\* A getOrSet step of caller c that starts fetchFn() for key.
StartsFetch(c, key) ==
    /\ gpc[c] = Idle
    /\ gpc'[c].status = "fetching"
    /\ gpc'[c].key = key
    /\ \A d \in Callers \ {c} : gpc'[d] = gpc[d]

\* A step in which the getOrSet call of caller c returns.
Returns(c) ==
    /\ gpc[c].status = "fetching"
    /\ gpc'[c] = Idle
    /\ \A d \in Callers \ {c} : gpc'[d] = gpc[d]

\* C21 (as worded): a stored value is returned by every get at now < expiresAt
\* and is absent for every get at now >= expiresAt, the instant now = expiresAt
\* included.
C21_AbsentFromDeadline ==
    [][(cev'.op = "get" /\ cache[cev'.key] # NoEntry) =>
         LET entry == cache[cev'.key] IN
         /\ cnow < entry.expiresAt => cev'.result = entry.value
         /\ cnow >= entry.expiresAt => cev'.result = NoValue]_vars

\* C21 (amended): a stored value is returned by every get at now <= expiresAt,
\* the instant now = expiresAt included, and is absent for every get at
\* now > expiresAt.
C21_AbsentAfterDeadline ==
    [][(cev'.op = "get" /\ cache[cev'.key] # NoEntry) =>
         LET entry == cache[cev'.key] IN
         /\ cnow <= entry.expiresAt => cev'.result = entry.value
         /\ cnow > entry.expiresAt => cev'.result = NoValue]_vars

\* A get at the instant now = expiresAt has returned the value.
C21_Witness ==
    /\ cev.op = "get"
    /\ cev.result # NoValue
    /\ cache[cev.key].expiresAt = cnow

\* C22: whatever the operations and however time advances, a read (get, has,
\* the lookup of getOrSet) that finds a value finds an entry whose time has not
\* passed (now <= expiresAt), and the value it returns is the value of the
\* latest set of that key, never one from before a delete or clear.
C22_ReadsFreshAndLatest ==
    [][/\ (cev'.op \in {"get", "getOrSetHit"} /\ cev'.result # NoValue) =>
            /\ Live(cache, cev'.key, cnow)
            /\ cev'.result = lastSet[cev'.key]
       /\ (cev'.op = "has" /\ cev'.result = 1) =>
            /\ Live(cache, cev'.key, cnow)
            /\ lastSet[cev'.key] # NoValue]_vars

\* A get has returned a value after time advanced, while another key's value
\* has expired and is gone.
C22_Witness ==
    /\ cev.op = "get"
    /\ cev.result # NoValue
    /\ cnow > 0
    /\ \E k \in Keys : lastSet[k] # NoValue /\ cache[k] = NoEntry

\* C23: set stores expiresAt = now + ttlSeconds whenever ttlSeconds is given,
\* 0 included, and now + defaultTTL only when it is omitted; the entry under
\* the key is overwritten, value and expiry.
C23_GivenTtlAlwaysUsed ==
    [][cev'.op = "set" =>
         /\ cache'[cev'.key].value = lastSet'[cev'.key]
         /\ cache'[cev'.key].expiresAt =
              cnow + (IF cev'.ttl = NoTtl THEN defaultTTL ELSE cev'.ttl) * MsPerSecond
      ]_vars

\* C24: cleanup removes exactly the entries with expiresAt < now, leaves every
\* other entry as it was and returns the number removed; a get that follows on
\* a removed key returns absent.
C24_CleanupRemovesExactlyExpired ==
    [][cev'.op = "cleanup" =>
         /\ \A k \in Keys :
              cache'[k] = IF Expired(cache, k, cnow) THEN NoEntry ELSE cache[k]
         /\ cev'.result = Cardinality({k \in Keys : Expired(cache, k, cnow)})
         /\ \A k \in Keys :
              Expired(cache, k, cnow) =>
                  SimpleCache_get(cache', k, cnow').result = NoValue]_vars

\* cleanup has removed one entry and kept one that is exactly at its deadline.
C24_Witness ==
    /\ cev.op = "cleanup"
    /\ cev.result = 1
    /\ \E k \in Keys : cache[k] # NoEntry /\ cache[k].expiresAt = cnow

\* C25: size() is the number of entries physically stored, expired ones not
\* yet removed included; a get or has on an expired key removes it, and size()
\* is one less afterwards.
C25_SizeCountsStoredEntries ==
    [][/\ cev'.op = "size" => cev'.result = Cardinality(storedKeys(cache))
       /\ (cev'.op \in {"get", "has"} /\ Expired(cache, cev'.key, cnow)) =>
            /\ cache'[cev'.key] = NoEntry
            /\ SimpleCache_size(cache') = SimpleCache_size(cache) - 1]_vars

\* has found an expired entry and removed it, while another expired entry is
\* still stored and counted.
C25_Witness ==
    /\ cev.op = "has"
    /\ cev.expired
    /\ cache[cev.key] = NoEntry
    /\ SimpleCache_size(cache) = 1
    /\ \E k \in Keys : Expired(cache, k, cnow)

\* C26: getOrSet on a key that is stored and unexpired returns the cached value
\* without invoking fetchFn and without changing the entry; otherwise it
\* invokes fetchFn once, stores the result as set does with the given ttl (or
\* the default when omitted) and returns that result.
C26_GetOrSetHitOrFetch ==
    [][/\ cev'.op \in {"getOrSetHit", "getOrSetFetch"} =>
            IF Live(cache, cev'.key, cnow)
            THEN /\ cev'.op = "getOrSetHit"
                 /\ cev'.result = cache[cev'.key].value
                 /\ cache' = cache
                 /\ gpc' = gpc
            ELSE /\ cev'.op = "getOrSetFetch"
                 /\ \E c \in Callers : StartsFetch(c, cev'.key)
       /\ cev'.op = "getOrSetReturn" =>
            \E c \in Callers :
                /\ Returns(c)
                /\ cev'.key = gpc[c].key
                /\ cev'.result = cev'.value
                /\ cache' = [cache EXCEPT ![cev'.key] =
                     [value     |-> cev'.value,
                      expiresAt |-> cnow + (IF gpc[c].ttl = NoTtl THEN defaultTTL
                                            ELSE gpc[c].ttl) * MsPerSecond]]]_vars

\* getOrSet has fetched, stored the result with the ttl it was given and
\* returned.
C26_Witness ==
    /\ cev.op = "getOrSetReturn"
    /\ cache[cev.key].value = cev.result
    /\ cache[cev.key].expiresAt = cnow + MaxTTL * MsPerSecond

\* C27: getOrSet is not single-flight: a getOrSet on a key that is missing
\* (not stored, or expired) invokes fetchFn even while another caller's fetch
\* for that key is in flight, and each caller is returned the result of its own
\* fetchFn, the other call staying in flight.
C27_NotSingleFlight ==
    [][/\ (cev'.op \in {"getOrSetHit", "getOrSetFetch"}
           /\ ~Live(cache, cev'.key, cnow)) =>
            \E c \in Callers : StartsFetch(c, cev'.key)
       /\ cev'.op = "getOrSetReturn" =>
            \E c \in Callers : Returns(c) /\ cev'.result = cev'.value]_vars

\* Two getOrSet calls on the same key are both awaiting their own fetchFn.
C27_Witness ==
    /\ cev.op = "getOrSetFetch"
    /\ \E c \in Callers : \E d \in Callers \ {c} :
          /\ gpc[c].status = "fetching"
          /\ gpc[d].status = "fetching"
          /\ gpc[c].key = gpc[d].key

\* C28: cleanup, wherever it runs between the steps of the other operations,
\* removes no entry with now <= expiresAt, and every later get, has and
\* getOrSet lookup gives the result it gives in the same run without cleanup.
C28_CleanupIsInvisible ==
    [][/\ cev'.op = "cleanup" =>
            \A k \in Keys : Live(cache, k, cnow) => cache'[k] = cache[k]
       /\ cev'.op \in {"get", "getOrSetHit", "getOrSetFetch"} =>
            cev'.result = SimpleCache_get(noSweep, cev'.key, cnow).result
       /\ cev'.op = "has" =>
            (cev'.result = 1) = SimpleCache_has(noSweep, cev'.key, cnow).result
      ]_vars

\* A get has run after cleanup removed an entry that the run without cleanup
\* still stores.
C28_Witness ==
    /\ cev.op = "get"
    /\ \E k \in Keys : noSweep[k] # NoEntry /\ cache[k] = NoEntry

\* =================================================================== LRUCache
MaxSizes == 0..MaxLruSize

\* The Map: a sequence of entries in insertion order.
mapKeys(m) == {m[i].key : i \in 1..Len(m)}

mapHas(m, key) == key \in mapKeys(m)

mapGet(m, key) == m[CHOOSE i \in 1..Len(m) : m[i].key = key]

\* Map.delete of a key that is not stored, undefined included, changes nothing.
mapDelete(m, key) == SelectSeq(m, LAMBDA e : e.key # key)

\* Map.set keeps the position of a key that is stored and appends a new one.
mapSet(m, key, value, timestamp) ==
    LET entry == [key |-> key, value |-> value, timestamp |-> timestamp] IN
    IF mapHas(m, key)
    THEN [i \in 1..Len(m) |-> IF m[i].key = key THEN entry ELSE m[i]]
    ELSE Append(m, entry)

\* this.cache.keys().next().value: undefined when the Map is empty
firstKey(m) == IF m = <<>> THEN NoKey ELSE m[1].key

LRUCache_setEvictsBeforeRemove(m, key, value, t, max) ==
    LET m1 == IF Len(m) >= max THEN mapDelete(m, firstKey(m)) ELSE m
        m2 == IF mapHas(m1, key) THEN mapDelete(m1, key) ELSE m1
    IN  mapSet(m2, key, value, t)

LRUCache_set(m, key, value, t, max) ==
    LET m1 == IF mapHas(m, key) THEN mapDelete(m, key) ELSE m
        m2 == IF Len(m1) >= max THEN mapDelete(m1, firstKey(m1)) ELSE m1
    IN  mapSet(m2, key, value, t)

LRUCache_getNoPromote(m, key, t) ==
    IF ~mapHas(m, key) THEN [map |-> m, result |-> NoValue]
    ELSE [map |-> m, result |-> mapGet(m, key).value]

LRUCache_get(m, key, t) ==
    IF ~mapHas(m, key) THEN [map |-> m, result |-> NoValue]
    ELSE LET entry == mapGet(m, key) IN
         [map    |-> mapSet(mapDelete(m, key), key, entry.value, t),
          result |-> entry.value]

LRUCache_hasPromotes(m, key) ==
    LET r == LRUCache_get(m, key, 0) IN
    [map |-> r.map, result |-> r.result # NoValue]

LRUCache_has(m, key) == [map |-> m, result |-> mapHas(m, key)]

LRUCache_delete(m, key) == [map |-> mapDelete(m, key), result |-> mapHas(m, key)]

LRUCache_clear(m) == <<>>

LRUCache_size(m) == Len(m)

\* ---- the reference model: the logical time of each key's latest set or get,
\* kept as a rank among the stored keys (1 is the oldest, 0 is not stored)
Forget(lt, key) ==
    [j \in DOMAIN lt |->
        IF j = key THEN 0
        ELSE IF lt[key] > 0 /\ lt[j] > lt[key] THEN lt[j] - 1 ELSE lt[j]]

ForgetAll(lt, keys) ==
    IF keys = {} THEN lt ELSE Forget(lt, CHOOSE k \in keys : TRUE)

Touch(lt, key) ==
    LET rest == Forget(lt, key) IN
    [rest EXCEPT ![key] = Cardinality({j \in DOMAIN lt : rest[j] > 0}) + 1]

\* The keys whose latest set or get is the oldest.
Oldest(lt) == {k \in DOMAIN lt : lt[k] = 1}

LruInit ==
    /\ maxSize \in MaxSizes
    /\ lru = <<>>
    /\ lnow = 1
    /\ lev = LruEvent("new", NoKey, FALSE, NoValue, {})
    /\ lastTouch = [k \in LruKeys |-> 0]

LruAdvance ==
    /\ lnow < MaxLruTime
    /\ lnow' = lnow + 1
    /\ lev' = LruEvent("advance", NoKey, FALSE, NoValue, {})
    /\ UNCHANGED <<maxSize, lru, lastTouch>>
    /\ UNCHANGED notLru

LruSet(key, value) ==
    LET m == LRUCache_set(lru, key, value, lnow, maxSize)
        evicted == (mapKeys(lru) \ {key}) \ mapKeys(m)
    IN  /\ lru' = m
        /\ lev' = LruEvent("set", key, mapHas(lru, key), value, evicted)
        /\ lastTouch' = Touch(ForgetAll(lastTouch, evicted), key)
        /\ UNCHANGED <<maxSize, lnow>>
        /\ UNCHANGED notLru

LruGet(key) ==
    LET r == LRUCache_get(lru, key, lnow) IN
    /\ lru' = r.map
    /\ lev' = LruEvent("get", key, mapHas(lru, key), r.result, {})
    /\ lastTouch' = IF r.result # NoValue THEN Touch(lastTouch, key) ELSE lastTouch
    /\ UNCHANGED <<maxSize, lnow>>
    /\ UNCHANGED notLru

LruHas(key) ==
    LET r == LRUCache_has(lru, key) IN
    /\ lru' = r.map
    /\ lev' = LruEvent("has", key, mapHas(lru, key), IF r.result THEN 1 ELSE 0, {})
    /\ UNCHANGED <<maxSize, lnow, lastTouch>>
    /\ UNCHANGED notLru

LruDelete(key) ==
    LET r == LRUCache_delete(lru, key) IN
    /\ lru' = r.map
    /\ lev' = LruEvent("delete", key, mapHas(lru, key), IF r.result THEN 1 ELSE 0, {})
    /\ lastTouch' = Forget(lastTouch, key)
    /\ UNCHANGED <<maxSize, lnow>>
    /\ UNCHANGED notLru

LruClear ==
    /\ lru' = LRUCache_clear(lru)
    /\ lev' = LruEvent("clear", NoKey, FALSE, NoValue, {})
    /\ lastTouch' = [k \in LruKeys |-> 0]
    /\ UNCHANGED <<maxSize, lnow>>
    /\ UNCHANGED notLru

LruSize ==
    /\ lev' = LruEvent("size", NoKey, FALSE, LRUCache_size(lru), {})
    /\ UNCHANGED <<maxSize, lru, lnow, lastTouch>>
    /\ UNCHANGED notLru

LruNext ==
    \/ LruAdvance
    \/ \E key \in LruKeys, value \in CacheValues : LruSet(key, value)
    \/ \E key \in LruKeys : LruGet(key)
    \/ \E key \in LruKeys : LruHas(key)
    \/ \E key \in LruKeys : LruDelete(key)
    \/ LruClear
    \/ LruSize

LruStart ==
    LruInit /\ BreakerParked /\ RetryParked /\ ClassifyParked /\ TtlParked

LruSpec == LruStart /\ [][LruNext]_vars

\* --------------------------------------------------------- LRUCache claims
\* C29: size() never exceeds maxSize, for every maxSize the constructor
\* accepts, maxSize = 0 included.
C29_SizeWithinMaxSize == LRUCache_size(lru) <= maxSize

\* C30: a set of a key that is not stored, on a cache that holds entries and is
\* at capacity, evicts exactly one entry, the one whose latest set or get is the
\* oldest, as the reference model tracking the last touch of each key does, and
\* keeps every other entry; so maxSize + 1 sets of distinct keys evict the key
\* set first.
C30_EvictsLeastRecentlyTouched ==
    [][(/\ lev'.op = "set"
        /\ ~mapHas(lru, lev'.key)
        /\ LRUCache_size(lru) >= maxSize
        /\ LRUCache_size(lru) >= 1) =>
         /\ Cardinality(lev'.evicted) = 1
         /\ lev'.evicted = Oldest(lastTouch)
         /\ mapKeys(lru') = (mapKeys(lru) \ lev'.evicted) \cup {lev'.key}
         /\ \A k \in mapKeys(lru) \ lev'.evicted : mapGet(lru', k) = mapGet(lru, k)
      ]_vars

\* A set on a full cache has evicted "b" and kept "a", which was stored before
\* "b" and touched after it.
C30_Witness ==
    /\ lev.op = "set"
    /\ lev.key = "c"
    /\ lev.evicted = {"b"}
    /\ mapKeys(lru) = {"a", "c"}
    /\ firstKey(lru) = "a"
    /\ mapGet(lru, "a").timestamp < mapGet(lru, "c").timestamp

\* The entries other than key, in Map order.
Others(m, key) == SelectSeq(m, LAMBDA e : e.key # key)

\* key is the entry inserted last.
MostRecent(m, key) == m # <<>> /\ m[Len(m)].key = key

\* C31: a get on a stored key makes it the most recently used entry and keeps
\* every other entry and their order, so that with another entry stored the
\* next set of a new key does not evict it; has changes nothing of the cache:
\* content, order and timestamps stay as they were, so a key only checked with
\* has keeps its position.
C31_GetPromotesHasDoesNot ==
    [][/\ (lev'.op = "get" /\ mapHas(lru, lev'.key)) =>
            /\ MostRecent(lru', lev'.key)
            /\ mapGet(lru', lev'.key).value = mapGet(lru, lev'.key).value
            /\ Others(lru', lev'.key) = Others(lru, lev'.key)
            /\ Len(lru) >= 2 =>
                  \A k \in LruKeys \ mapKeys(lru') :
                      mapHas(LRUCache_set(lru', k, 1, lnow, maxSize), lev'.key)
       /\ lev'.op = "has" =>
            /\ lru' = lru
            /\ lev'.result = (IF mapHas(lru, lev'.key) THEN 1 ELSE 0)]_vars

\* has has found the oldest key of a full cache at a later time than the key
\* was stored: the key is still the oldest and keeps its timestamp.
C31_Witness ==
    /\ lev.op = "has"
    /\ lev.result = 1
    /\ Len(lru) >= 2
    /\ Len(lru) = maxSize
    /\ firstKey(lru) = lev.key
    /\ mapGet(lru, lev.key).timestamp < lnow

\* C32: a set on a stored key, also on a full cache, replaces the value, makes
\* the key the most recently used, evicts no other entry and leaves size() as
\* it was; a set evicts only when the key is new and the cache is at capacity
\* (size >= maxSize).
C32_SetExistingKeepsOthers ==
    [][/\ (lev'.op = "set" /\ mapHas(lru, lev'.key)) =>
            /\ MostRecent(lru', lev'.key)
            /\ mapGet(lru', lev'.key).value = lev'.result
            /\ lev'.evicted = {}
            /\ Others(lru', lev'.key) = Others(lru, lev'.key)
            /\ LRUCache_size(lru') = LRUCache_size(lru)
       /\ (lev'.op = "set" /\ lev'.evicted # {}) =>
            /\ ~mapHas(lru, lev'.key)
            /\ LRUCache_size(lru) >= maxSize]_vars

\* A set has replaced the value of the oldest key of a full cache of two
\* entries.
C32_Witness ==
    /\ lev.op = "set"
    /\ lev.had
    /\ lev.evicted = {}
    /\ maxSize = 2
    /\ LRUCache_size(lru) = 2
    /\ MostRecent(lru, lev.key)

\* ------------------------------------------------ CircuitBreaker, continued
\* C33: in every reachable state, whatever the interleaving of overlapping
\* execute calls and resets (failureThreshold >= 1): CLOSED implies
\* failureCount < failureThreshold, and HALF_OPEN implies successCount < 2.
C33_CountsBelowTheirLimits ==
    /\ state = CLOSED => failureCount < failureThreshold
    /\ state = HALF_OPEN => successCount < 2

\* While one call is pending, a failure has left the breaker CLOSED one
\* failure below its threshold.
C33_Witness ==
    /\ event.op = "failure"
    /\ state = CLOSED
    /\ failureThreshold >= 2
    /\ failureCount = failureThreshold - 1
    /\ \E c \in Calls : pc[c] = "pending"

\* C34: an execute call rejected because the breaker is OPEN leaves state,
\* failureCount, successCount and lastFailureTime as they were: a rejection is
\* no failure and does not postpone OPEN -> HALF_OPEN.
C34_RejectionChangesNothing ==
    [][event'.op = "rejected" =>
         /\ state = OPEN
         /\ UNCHANGED <<state, failureCount, successCount, lastFailureTime>>]_vars

\* A call has been rejected some time after the latest failure.
C34_Witness ==
    /\ event.op = "rejected"
    /\ state = OPEN
    /\ lastFailureTime < now

\* C35: the breaker closes from HALF_OPEN only on two successes of operations
\* admitted during that HALF_OPEN period; the success of a call admitted
\* earlier does not count.
C35_ClosesOnTrialSuccessesOnly ==
    [][(state = HALF_OPEN /\ state' = CLOSED /\ event'.op = "success") =>
         hoOwn' >= 2]_vars

\* C36: lastFailureTime is the completion time of the latest failed operation,
\* 0 if there is none since construction or reset; a rejection while OPEN is
\* decided by the time elapsed since that failure, so a call admitted before
\* the breaker opened that fails while it is OPEN restarts the window.
C36_WindowFromLatestFailure ==
    [][/\ event.op = "new" => lastFailureTime = 0
       /\ event'.op = "failure" => lastFailureTime' = now
       /\ event'.op = "reset" => lastFailureTime' = 0
       /\ event'.op \notin {"failure", "reset"} => lastFailureTime' = lastFailureTime
       /\ event'.op = "rejected" => now - lastFailureTime < resetTimeout
       /\ (event'.op = "invoked" /\ state = OPEN) =>
             now - lastFailureTime >= resetTimeout]_vars

\* A call has failed while the breaker was already OPEN, later than the clock's
\* first value: the window restarts at that time.
C36_Witness ==
    /\ event.op = "failure"
    /\ event.from = OPEN
    /\ state = OPEN
    /\ lastFailureTime = now
    /\ now > 1

\* --------------------------------------------------- SimpleCache, continued
\* C37: when the fetch of a getOrSet(key) resolves, getOrSet writes the fetched
\* value under the key with a fresh expiry, whatever a set, a delete or another
\* getOrSet did to the key while the fetch was pending (the last writer wins);
\* when the fetch rejects, getOrSet rejects with that error and the cache is
\* exactly as it was.
C37_LastWriterWins ==
    [][/\ cev'.op = "getOrSetReturn" =>
            \E c \in Callers :
                /\ Returns(c)
                /\ cache'[cev'.key].value = cev'.value
                /\ cache'[cev'.key].expiresAt =
                     cnow + (IF gpc[c].ttl = NoTtl THEN defaultTTL
                             ELSE gpc[c].ttl) * MsPerSecond
                /\ lastSet'[cev'.key] = cev'.value
       /\ cev'.op = "getOrSetThrow" =>
            /\ \E c \in Callers : Returns(c)
            /\ cev'.result = cev'.value
            /\ cache' = cache]_vars

\* getOrSet has returned, at a later time than the cache was built, and has
\* replaced an entry written to its key while its fetch was pending.
C37_Witness ==
    /\ cev.op = "getOrSetReturn"
    /\ cev.over
    /\ cache[cev.key].value = cev.result
    /\ cache[cev.key].expiresAt = cnow + MaxTTL * MsPerSecond
    /\ cnow > 0

\* C38: set, get, has, delete and getOrSet on a key never add, remove or change
\* the entry stored under another key; only clear and cleanup touch several
\* keys.
C38_KeysIndependent ==
    [][cev'.op \in {"set", "get", "has", "delete", "getOrSetHit", "getOrSetFetch",
                    "getOrSetReturn", "getOrSetThrow"} =>
         \A k \in Keys \ {cev'.key} : cache'[k] = cache[k]]_vars

\* A get has removed the expired entry of its key and left the expired entry
\* of the other key stored.
C38_Witness ==
    /\ cev.op = "get"
    /\ cev.expired
    /\ cache[cev.key] = NoEntry
    /\ \E k \in Keys \ {cev.key} : Expired(cache, k, cnow)

\* ================================================ breaker wrapping retry
\* breaker.execute(() => withRetry(op, config)), called again and again from
\* one call site, each call after the previous one has settled.  The breaker
\* call is call site 1 and its withRetry call is retry slot 1.  In this
\* composition invoked[1] counts the invocations of op since the breaker last
\* recorded a success.
Guarded == 1

\* What the breaker's caller sees thrown when the withRetry call rejects.
RetryFailure == [name |-> "Error", message |-> "ETIMEDOUT"]

\* execute up to its await: the entry check, then the rejection, or fn(), which
\* runs withRetry up to its first await (lines 187-205 and 51-68).
GuardedEnter(context) ==
    /\ pc[Guarded] = "idle"
    /\ rpc[Guarded] = "idle"
    /\ LET b == entryCheck(this, now, resetTimeout)
           entered == state = OPEN /\ b.state = HALF_OPEN
       IN  IF b.state = OPEN
           THEN /\ Assign(b)
                /\ event' = Event("rejected", Guarded, CircuitOpenError(context), NoError)
                /\ UNCHANGED <<pc, hoInvoked, hoSuccesses, trial, hoOwn>>
                /\ UNCHANGED retryVars
           ELSE /\ Assign(b)
                /\ pc' = [pc EXCEPT ![Guarded] = "pending"]
                /\ event' = Event("invoked", Guarded, NoError, NoError)
                /\ hoInvoked' = IF entered THEN 1
                                ELSE IF b.state = HALF_OPEN THEN Count(hoInvoked)
                                ELSE hoInvoked
                /\ hoSuccesses' = IF entered THEN 0 ELSE hoSuccesses
                /\ trial' = IF entered THEN [d \in Calls |-> d = Guarded]
                             ELSE [trial EXCEPT ![Guarded] = (b.state = HALF_OPEN)]
                /\ hoOwn' = IF entered THEN 0 ELSE hoOwn
                /\ delay' = [delay EXCEPT ![Guarded] = initialDelay]
                /\ lastError' = [lastError EXCEPT ![Guarded] = Undefined]
                /\ LoopHead({Guarded}, 1)
                /\ UNCHANGED <<maxAttempts, initialDelay, maxDelay, backoffFactor,
                               retryableErrors, timer, batch, batchResult, waited,
                               lastThrown, resolvedWith, allRetryable>>
    /\ UNCHANGED <<failureThreshold, resetTimeout, now, streak>>
    /\ UNCHANGED <<classifyVars, ttlVars, lruVars>>

\* The withRetry promise has settled: onSuccess or onFailure, lines 205-216.
\* The retry slot is free for the next call.
GuardedSettle ==
    /\ pc[Guarded] = "pending"
    /\ outcome[Guarded].status # "pending"
    /\ IF outcome[Guarded].status = "fulfilled"
       THEN /\ Assign(onSuccess(this))
            /\ event' = Event("success", Guarded, NoError, NoError)
            /\ streak' = 0
            /\ hoSuccesses' = IF state = HALF_OPEN THEN Count(hoSuccesses)
                              ELSE hoSuccesses
            /\ hoOwn' = IF state = HALF_OPEN /\ trial[Guarded] THEN Count(hoOwn)
                        ELSE hoOwn
            /\ invoked' = [invoked EXCEPT ![Guarded] = 0]
       ELSE /\ failureCount < MaxFailureCount
            /\ Assign(onFailure(this, now, failureThreshold))
            /\ event' = Event("failure", Guarded, RetryFailure, RetryFailure)
            /\ streak' = streak + 1
            /\ UNCHANGED <<hoSuccesses, hoOwn, invoked>>
    /\ pc' = [pc EXCEPT ![Guarded] = "idle"]
    /\ trial' = [trial EXCEPT ![Guarded] = FALSE]
    /\ rpc' = [rpc EXCEPT ![Guarded] = "idle"]
    /\ attempt' = [attempt EXCEPT ![Guarded] = 0]
    /\ delay' = [delay EXCEPT ![Guarded] = 0]
    /\ lastError' = [lastError EXCEPT ![Guarded] = Undefined]
    /\ timer' = [timer EXCEPT ![Guarded] = 0]
    /\ outcome' = [outcome EXCEPT ![Guarded] = Pending]
    /\ waited' = [waited EXCEPT ![Guarded] = <<>>]
    /\ lastThrown' = [lastThrown EXCEPT ![Guarded] = Undefined]
    /\ resolvedWith' = [resolvedWith EXCEPT ![Guarded] = Undefined]
    /\ allRetryable' = [allRetryable EXCEPT ![Guarded] = TRUE]
    /\ UNCHANGED <<failureThreshold, resetTimeout, now, hoInvoked>>
    /\ UNCHANGED <<maxAttempts, initialDelay, maxDelay, backoffFactor,
                   retryableErrors, batch, batchResult>>
    /\ UNCHANGED <<classifyVars, ttlVars, lruVars>>

ComposedNext ==
    \/ Tick
    \/ \E context \in Contexts : GuardedEnter(context)
    \/ \E v \in Values : FnResolves(Guarded, v)
    \/ \E e \in ThrownErrors : FnRejects(Guarded, e)
    \/ Elapse
    \/ SleepResolves(Guarded)
    \/ GuardedSettle

\* The breaker and the retry configuration are chosen.
ComposedStart ==
    BreakerInit /\ RetryInit /\ ClassifyParked /\ TtlParked /\ LruParked

ComposedSpec == ComposedStart /\ [][ComposedNext]_vars

\* The step in which a breaker call settles.
Settles == pc[Guarded] = "pending" /\ pc'[Guarded] = "idle"

====
